---------------------------- MODULE Spec2Model ----------------------------
(***************************************************************************)
(* Model of colour_filter.py: the GDB frame filter that colours and wraps  *)
(* backtrace lines (FrameColorizer) and prints the whole stack on the      *)
(* first call of the filter's iterator (FilterProxy).                      *)
(*                                                                         *)
(* A Python string is a sequence of characters; a character is a string    *)
(* of length one, except the escape character u'\033', written ESC, and    *)
(* the white space that TLA+ has no escape for, written VT and U+xxxx.     *)
(* Digits and letters are ASCII; integers stay below 2^31, inside Python's *)
(* int (hex() of a long would end in L).                                   *)
(* String positions are Python's (0-based): s[i] is the element i + 1.     *)
(* A Python call that may raise returns a record [exc, val]: exc is the    *)
(* name of the exception ("" when the call returned), val the value.       *)
(*                                                                         *)
(* Four specifications share the variables: Spec runs FilterProxy.next on  *)
(* a stack of frames; SpecStr, SpecFunction and SpecLength run one call of *)
(* FrameColorizer.__str__, .function and .length on inputs drawn from      *)
(* bounded sets.  A specification leaves the variables it does not use at  *)
(* their initial values.                                                   *)
(***************************************************************************)
EXTENDS Integers, Sequences, FiniteSets, TLC

VARIABLES
    pc,             \* position of the exercised call: "ready", "loop", "returned", "raised"
    frames,         \* the frames handed to FilterProxy.__init__ (the host's iterator)
    ix,             \* how many frames the generator self.frames has yielded
                    \* (in SpecStr: the depth the one decorator was built with)
    print_address,  \* gdb.parameter('print address')
    width,          \* gdb.parameter('width'): [set |-> FALSE] is None
    stdout,         \* every character written to standard output
    calls,          \* number of calls of FilterProxy.next so far
    raised,         \* exception the last call ended with ("" before any call)
    colored_string, \* argument of FrameColorizer.length
    start,          \* local of FrameColorizer.length
    term_seq_len,   \* local of FrameColorizer.length
    retval          \* value the exercised call returned

vars == <<pc, frames, ix, print_address, width, stdout, calls, raised,
          colored_string, start, term_seq_len, retval>>

(***************************************************************************)
(* Characters and Python's string operations.                              *)
(***************************************************************************)
ESC == "ESC"
NL == "\n"

\* the characters unicode.strip() removes and int() skips: those Python 2
\* holds for white space (Py_UNICODE_ISSPACE)
Whitespace ==
    { " ", NL, "\t", "\r", "\f", "VT",
      "U+001C", "U+001D", "U+001E", "U+001F", "U+0085", "U+00A0", "U+1680",
      "U+180E", "U+2000", "U+2001", "U+2002", "U+2003", "U+2004", "U+2005",
      "U+2006", "U+2007", "U+2008", "U+2009", "U+200A", "U+2028", "U+2029",
      "U+202F", "U+205F", "U+3000" }

Digits == <<"0", "1", "2", "3", "4", "5", "6", "7", "8", "9">>

HexDigits == Digits \o <<"a", "b", "c", "d", "e", "f">>

Ok(v) == [exc |-> "", val |-> v]

Raise(e) == [exc |-> e, val |-> <<>>]

\* s[i:j] for 0 <= i, j <= len(s)
Slice(s, i, j) == IF j <= i THEN <<>> ELSE SubSeq(s, i + 1, j)

\* s[:j], j possibly negative (counted from the end)
SliceTo(s, j) == IF j < 0 THEN Slice(s, 0, Len(s) + j) ELSE Slice(s, 0, j)

StartsWithAt(s, sub, i) ==
    /\ i + Len(sub) <= Len(s)
    /\ \A k \in 1..Len(sub) : s[i + k] = sub[k]

\* s.find(sub, from): the lowest position >= from where sub occurs, or -1
Find(s, sub, from) ==
    LET hits == {i \in from..Len(s) : StartsWithAt(s, sub, i)}
    IN  IF hits = {} THEN -1 ELSE CHOOSE i \in hits : \A j \in hits : i <= j

\* s.strip()
Strip(s) ==
    LET keep == {i \in 1..Len(s) : s[i] \notin Whitespace}
    IN  IF keep = {} THEN <<>>
        ELSE LET lo == CHOOSE i \in keep : \A j \in keep : i <= j
                 hi == CHOOSE i \in keep : \A j \in keep : i >= j
             IN  SubSeq(s, lo, hi)

\* s without its leading white space
LStrip(s) ==
    LET keep == {i \in 1..Len(s) : s[i] \notin Whitespace}
    IN  IF keep = {} THEN <<>>
        ELSE SubSeq(s, CHOOSE i \in keep : \A j \in keep : i <= j, Len(s))

\* s.rsplit(u' ', 1)
RSplit1(s) ==
    LET sp == {i \in 1..Len(s) : s[i] = " "}
    IN  IF sp = {} THEN <<s>>
        ELSE LET k == CHOOSE i \in sp : \A j \in sp : i >= j
             IN  <<SubSeq(s, 1, k - 1), SubSeq(s, k + 1, Len(s))>>

RECURSIVE Join(_, _)
\* sep.join(parts)
Join(sep, parts) ==
    IF parts = <<>> THEN <<>>
    ELSE IF Len(parts) = 1 THEN parts[1]
    ELSE parts[1] \o sep \o Join(sep, Tail(parts))

DigitValue(c) == (CHOOSE k \in 1..Len(HexDigits) : HexDigits[k] = c) - 1

RECURSIVE DecValue(_)
DecValue(ds) ==
    IF ds = <<>> THEN 0
    ELSE 10 * DecValue(SubSeq(ds, 1, Len(ds) - 1)) + DigitValue(ds[Len(ds)])

\* int(s) of Python 2: surrounding white space is dropped, then an optional
\* sign, white space again, and one or more decimal digits; anything else is
\* a ValueError.
ParseInt(s) ==
    LET t      == Strip(s)
        signed == t # <<>> /\ t[1] \in {"+", "-"}
        ds     == IF signed THEN LStrip(Tail(t)) ELSE t
    IN  IF ds # <<>> /\ \A k \in 1..Len(ds) : \E d \in 1..10 : Digits[d] = ds[k]
        THEN Ok(IF signed /\ t[1] = "-" THEN 0 - DecValue(ds) ELSE DecValue(ds))
        ELSE Raise("ValueError")

RECURSIVE ToBase(_, _)
\* the digits of n >= 0 in the given base, without padding
ToBase(n, base) ==
    IF n < base THEN <<HexDigits[n + 1]>>
    ELSE ToBase(n \div base, base) \o <<HexDigits[(n % base) + 1]>>

\* mutant: the offset is left in decimal
HexAsDecimal(n) == IF n < 0 THEN <<"-">> \o ToBase(0 - n, 10) ELSE ToBase(n, 10)

\* hex(n)
Hex(n) ==
    IF n < 0 THEN <<"-", "0", "x">> \o ToBase(0 - n, 16)
    ELSE <<"0", "x">> \o ToBase(n, 16)

\* c * n: the empty string for n <= 0
Repeat(c, n) == [i \in 1..n |-> c]

\* u'%d' % n
FormatD(n) == IF n < 0 THEN <<"-">> \o ToBase(0 - n, 10) ELSE ToBase(n, 10)

\* u'%-3d' % n: left-justified in a field of 3
FormatLeft3(n) == FormatD(n) \o Repeat(" ", 3 - Len(FormatD(n)))

\* u'%016x' % n: zero-padded to 16 hexadecimal digits
FormatHex16(n) == Repeat("0", 16 - Len(ToBase(n, 16))) \o ToBase(n, 16)

\* the colour markers of the output
BrightWhite == <<ESC, "[", "1", ";", "3", "7", "m">>
BoldBlack   == <<ESC, "[", "1", ";", "3", "0", "m">>
BrightBlue  == <<ESC, "[", "1", ";", "3", "4", "m">>
Cyan        == <<ESC, "[", "0", ";", "3", "6", "m">>
Magenta     == <<ESC, "[", "0", ";", "3", "5", "m">>
Reset       == <<ESC, "[", "0", "m">>


(***************************************************************************)
(* The host's frame, as FrameDecorator's accessors report it:              *)
(*   pc        FrameDecorator.address()                                    *)
(*   func      FrameDecorator.function(): a name (is_int = FALSE), or a    *)
(*             bare address (is_int = TRUE) with symbol, the text that     *)
(*             `info symbol <address>' prints for it                       *)
(*   block     Frame.block(): raises RuntimeError, or the chain of blocks  *)
(*             from the innermost outwards (superblock); a block has a     *)
(*             function or not and holds symbols [name, is_argument,       *)
(*             raises, value], value being unicode(sym.value(frame))       *)
(*   filename  FrameDecorator.filename()                                   *)
(*   line      FrameDecorator.line(), 0 for None                           *)
(***************************************************************************)

(***************************************************************************)
(* FrameColorizer                                                          *)
(***************************************************************************)

\* mutant: the depth keyword is dropped, every decorator keeps the default 0
FrameColorizerDepthZero(frame, ix_) == [frame |-> frame, _depth |-> 0]

\* FrameColorizer(frame, depth=ix): the decorator object
FrameColorizer(frame, ix_) == [frame |-> frame, _depth |-> ix_]

address(frame) == BoldBlack \o <<"0", "x">> \o FormatHex16(frame.pc) \o Reset

depth(_depth) == BrightWhite \o <<"#">> \o FormatLeft3(_depth) \o Reset

filename(frame) == Cyan \o frame.filename \o Reset

line(frame) ==
    IF frame.line # 0 THEN Magenta \o <<":">> \o FormatD(frame.line) \o Reset
    ELSE <<>>

\* the first block of the chain that has a function: 0 when there is none
\* (the while loop over block.superblock)
FunctionBlock(chain) ==
    LET has == {k \in 1..Len(chain) : chain[k].function}
    IN  IF has = {} THEN 0 ELSE CHOOSE k \in has : \A j \in has : k <= j

RECURSIVE ArgList(_)
\* the for loop over the block's symbols: the list args, or the exception
\* sym.value(frame) raised
ArgList(syms) ==
    IF syms = <<>> THEN Ok(<<>>)
    ELSE LET sym == syms[1]
             rest == ArgList(Tail(syms))
         IN  IF ~sym.is_argument THEN rest
             ELSE IF sym.raises THEN Raise("gdb.error")
             ELSE IF rest.exc # "" THEN rest
             ELSE Ok(<<IF sym.value # <<>> THEN sym.name \o <<"=">> \o sym.value
                       ELSE sym.name>> \o rest.val)

frame_args(frame) ==
    LET chain == IF frame.block.raises THEN <<>> ELSE frame.block.chain
        k     == FunctionBlock(chain)
    IN  IF k = 0 THEN Ok(<<>>)
        ELSE LET args == ArgList(chain[k].syms)
             IN  IF args.exc # "" THEN args
                 ELSE Ok(Join(<<",", " ">>, args.val))

\* mutant: an offset that is no integer is cut off the name
ResolveSymbolDropOffset(symbol) ==
    LET name  == Strip(SliceTo(symbol, Find(symbol, <<"i", "n", " ", "s", "e", "c", "t", "i", "o", "n">>, 0)))
        parts == RSplit1(name)
    IN  IF Len(parts) = 1 THEN name
        ELSE LET offset == ParseInt(parts[2])
             IN  IF offset.exc # "" THEN parts[1]
                 ELSE BrightBlue \o parts[1] \o <<" ">> \o Hex(offset.val) \o Reset

\* the text of `info symbol' (gdb.execute; gdb binds the name gdb in the
\* namespace it runs the script in) cut before "in section" and trimmed, then
\* "<head> <offset>" with the offset in hexadecimal when it is an integer
ResolveSymbol(symbol) ==
    LET name  == Strip(SliceTo(symbol, Find(symbol, <<"i", "n", " ", "s", "e", "c", "t", "i", "o", "n">>, 0)))
        parts == RSplit1(name)
    IN  IF Len(parts) = 1 THEN name
        ELSE LET offset == ParseInt(parts[2])
             IN  IF offset.exc # "" THEN name
                 ELSE BrightBlue \o parts[1] \o <<" ">> \o Hex(offset.val) \o Reset

function(frame) ==
    IF frame.func.is_int THEN ResolveSymbol(frame.func.symbol)
    ELSE BrightBlue \o frame.func.name \o Reset

get_screen_width(w) == w

\* mutant: the terminating "m" is not counted into the control sequence
lengthIterShort(s, st) ==
    LET begin == Find(s, <<ESC>>, st.start)
    IN  IF begin = -1
        THEN [st EXCEPT !.pc = "returned", !.retval = Len(s) - st.term_seq_len]
        ELSE LET end == Find(s, <<"m">>, begin)
             IN  IF end = -1
                 THEN [st EXCEPT !.pc = "raised"]
                 ELSE [st EXCEPT !.term_seq_len = st.term_seq_len + end - begin,
                                 !.start = end]

\* one pass of the while loop of length(): st holds pc, start, term_seq_len
\* and, once pc is "returned", the result retval
lengthIter(s, st) ==
    LET begin == Find(s, <<ESC>>, st.start)
    IN  IF begin = -1
        THEN [st EXCEPT !.pc = "returned", !.retval = Len(s) - st.term_seq_len]
        ELSE LET end == Find(s, <<"m">>, begin)
             IN  IF end = -1
                 THEN [st EXCEPT !.pc = "raised"]   \* end = len(s): s is not defined, NameError
                 ELSE [st EXCEPT !.term_seq_len = st.term_seq_len + end - begin + 1,
                                 !.start = end]

RECURSIVE lengthLoop(_, _)
lengthLoop(s, st) == IF st.pc = "loop" THEN lengthLoop(s, lengthIter(s, st)) ELSE st

lengthEntry == [pc |-> "loop", start |-> 0, term_seq_len |-> 0, retval |-> 0]

length(s) ==
    LET st == lengthLoop(s, lengthEntry)
    IN  IF st.pc = "raised" THEN [exc |-> "NameError", val |-> 0]
        ELSE [exc |-> "", val |-> st.retval]

Part1(frame, _depth, is_print_address) ==
    IF is_print_address
    THEN depth(_depth) \o <<" ", " ">> \o address(frame) \o <<" ", "i", "n", " ">>
    ELSE depth(_depth) \o <<" ">>

Part2(fn, args) == fn \o <<" ">> \o BrightWhite \o <<"(">> \o args \o <<")">> \o Reset

Part3(frame) == filename(frame) \o line(frame)

At == <<" ", "a", "t", " ">>

\* mutant: a line as long as the screen is wrapped too
ExceedsOrEquals(parts, screen_width) == Len(parts) >= screen_width

\* len(parts) > screen_width
Exceeds(parts, screen_width) == Len(parts) > screen_width

\* mutant: the ' in ' part is not compensated
ShiftWidthPlain(visible, is_print_address) == visible - 1

\* shift_width: the visible length of part1 less one, less 3 to compensate ' in '
ShiftWidth(visible, is_print_address) ==
    visible - 1 - 3 * (IF is_print_address THEN 1 ELSE 0)

\* mutant: the second line is appended without the line break
WrappedNoBreak(part1, part2, part3, shift_width) ==
    part1 \o part2 \o Repeat(" ", shift_width) \o At \o part3

\* the two-line value
Wrapped(part1, part2, part3, shift_width) ==
    part1 \o part2 \o <<NL>> \o Repeat(" ", shift_width) \o At \o part3

__str__(self, is_print_address, w) ==
    LET frame == self.frame
        args  == frame_args(frame)
        part1 == Part1(frame, self._depth, is_print_address)
        part2 == Part2(function(frame), args.val)
        part3 == Part3(frame)
        parts == part1 \o part2 \o At \o part3
        screen_width == get_screen_width(w)
    IN  IF args.exc # "" THEN args
        ELSE IF screen_width.set /\ Exceeds(parts, screen_width.n)
        THEN LET visible == length(part1)
             IN  IF visible.exc # "" THEN Raise(visible.exc)
                 ELSE Ok(Wrapped(part1, part2, part3,
                                 ShiftWidth(visible.val, is_print_address)))
        ELSE Ok(parts)

(***************************************************************************)
(* FilterProxy                                                             *)
(***************************************************************************)
RECURSIVE UnrollPartial(_, _, _, _, _)
\* mutant: the frames are printed as they are rendered, so those before a
\* failing one are written
UnrollPartial(fs, k, acc, is_print_address, w) ==
    IF k >= Len(fs)
    THEN [exc |-> "", ix |-> k, written |-> Join(<<NL>>, acc) \o <<NL>>]
    ELSE LET r == __str__(FrameColorizer(fs[k + 1], k), is_print_address, w)
         IN  IF r.exc # ""
             THEN [exc |-> r.exc, ix |-> k + 1,
                   written |-> IF acc = <<>> THEN <<>> ELSE Join(<<NL>>, acc) \o <<NL>>]
             ELSE UnrollPartial(fs, k + 1, Append(acc, r.val), is_print_address, w)

RECURSIVE Unroll(_, _, _, _, _)
\* u'\n'.join(output): output draws the decorators from the generator
\* self.frames, which has yielded k of the frames fs, and renders each; acc
\* holds the renderings so far.  The block is printed once the generator is
\* exhausted; a rendering that raises ends the join with nothing printed and
\* leaves the generator past the frame that raised.
Unroll(fs, k, acc, is_print_address, w) ==
    IF k >= Len(fs)
    THEN [exc |-> "", ix |-> k, written |-> Join(<<NL>>, acc) \o <<NL>>]
    ELSE LET r == __str__(FrameColorizer(fs[k + 1], k), is_print_address, w)
         IN  IF r.exc # "" THEN [exc |-> r.exc, ix |-> k + 1, written |-> <<>>]
             ELSE Unroll(fs, k + 1, Append(acc, r.val), is_print_address, w)

unroll_stack(fs, k, is_print_address, w) == Unroll(fs, k, <<>>, is_print_address, w)

(***************************************************************************)
(* Bounds and the inputs drawn from them.                                  *)
(***************************************************************************)
MaxFrames == 3      \* frames of a stack handed to FilterProxy
MaxCalls == 3       \* calls of FilterProxy.next on one object
MaxDepth == 2       \* depths 0..MaxDepth of a rendered frame (and some wide ones)
MaxWidth == 100     \* screen widths 1..MaxWidth
MaxOffset == 20     \* offsets 0..MaxOffset in the text of `info symbol'
MaxLen == 4         \* length of the strings measured by length()

None == [set |-> FALSE, n |-> 0]

Width(n) == [set |-> TRUE, n |-> n]

InSection == <<" ", "i", "n", " ", "s", "e", "c", "t", "i", "o", "n", " ", ".", "t", "e", "x", "t", " ", "o", "f", " ", "/", "b", "i", "n", "/", "p", "r", "o", "g", NL>>

NameFunc(name) == [is_int |-> FALSE, name |-> name, symbol |-> <<>>]

AddrFunc(symbol) == [is_int |-> TRUE, name |-> <<>>, symbol |-> symbol]

Sym(name, is_argument, raises, value) ==
    [name |-> name, is_argument |-> is_argument, raises |-> raises, value |-> value]

NoBlock == [raises |-> TRUE, chain |-> <<>>]

Blocks(chain) == [raises |-> FALSE, chain |-> chain]

\* a lexical block without function inside the block of a function with the
\* arguments argc=2 and s (whose value prints as the empty string) and a local
NestedBlock ==
    Blocks(<<[function |-> FALSE, syms |-> <<Sym(<<"x">>, TRUE, FALSE, <<"1">>)>>],
             [function |-> TRUE,
              syms |-> <<Sym(<<"a", "r", "g", "c">>, TRUE, FALSE, <<"2">>),
                         Sym(<<"i">>, FALSE, FALSE, <<"0">>),
                         Sym(<<"s">>, TRUE, FALSE, <<>>)>>]>>)

\* blocks none of which has a function
OrphanBlock == Blocks(<<[function |-> FALSE, syms |-> <<Sym(<<"x">>, TRUE, FALSE, <<"1">>)>>]>>)

\* the value of the second argument cannot be read
BrokenBlock ==
    Blocks(<<[function |-> TRUE,
              syms |-> <<Sym(<<"p">>, TRUE, FALSE, <<"0">>),
                         Sym(<<"q">>, TRUE, TRUE, <<>>)>>]>>)

Frame(pc_, func, block, filename_, line_) ==
    [pc |-> pc_, func |-> func, block |-> block, filename |-> filename_, line |-> line_]

Main == <<"m", "a", "i", "n">>

RaiseSymbol == <<"r", "a", "i", "s", "e", " ", "+", " ", "2", "7", "2">> \o InSection

\* the stacks handed to FilterProxy are made of these frames
ProxyFrames ==
    { Frame(4194304, NameFunc(Main), NestedBlock, <<"a", ".", "c">>, 7),
      Frame(4198400, AddrFunc(RaiseSymbol), NoBlock, <<"l", "i", "b", "c">>, 0),
      Frame(4202496, NameFunc(<<"f">>), BrokenBlock, <<"b", ".", "c">>, 12) }

RECURSIVE SeqsUpTo(_, _)
\* the sequences over S of length at most n
SeqsUpTo(S, n) ==
    IF n = 0 THEN {<<>>}
    ELSE LET shorter == SeqsUpTo(S, n - 1)
         IN  shorter \cup {Append(q, x) : q \in shorter, x \in S}

ProxyWidths == {None, Width(40), Width(80), Width(MaxWidth)}

\* a value that prints on several lines
PrettyBlock ==
    Blocks(<<[function |-> TRUE,
              syms |-> <<Sym(<<"v">>, TRUE, FALSE, <<"{", NL, "}">>)>>]>>)

\* the frames rendered one at a time
StrFrames ==
    { Frame(4194304, func, block, <<"a", ".", "c">>, line_) :
        func \in {NameFunc(<<"f">>), AddrFunc(RaiseSymbol)},
        block \in {NoBlock, NestedBlock, OrphanBlock, BrokenBlock, PrettyBlock},
        line_ \in {0, 7} }

Depths == (0..MaxDepth) \cup {99, 999, 1000}

\* `set width 0' lifts the limit: the parameter is then None
Widths == {None} \cup {Width(n) : n \in 1..MaxWidth}

Names == {Main, <<"r", "a", "i", "s", "e">>, <<"o", "p", " ", "n">>}

\* what follows the name: nothing, " + <n>", or an offset that is no integer
GoodOffsets == {<<" ", "+", " ">> \o FormatD(n) : n \in (0..MaxOffset) \cup {272}}

BadOffsets ==
    { <<>>, <<" ", "+", " ", "a", "b", "c">>, <<" ", "+", " ", "0", "x", "1", "0">>,
      <<" ", "+">>, <<" ", "+", " ", "1", ".", "5">> }

\* the end of the text: with the section, or only the end of the line
Tails ==
    { InSection,
      <<" ", "i", "n", " ", "s", "e", "c", "t", "i", "o", "n", " ", ".", "d", "a", "t", "a", NL>>,
      <<"\t", "i", "n", " ", "s", "e", "c", "t", "i", "o", "n", " ", ".", "b", "s", "s", "\r", NL>>,
      <<NL>>, <<"\r", NL>>, <<"\f", "U+00A0", NL>> }

\* offsets with white space inside: int() skips it after the sign
SpacedOffsets ==
    { <<" ", "+", "\t", "1", "6">>, <<" ", "-", "\t", "5">>, <<" ", "+", "\r", "VT", "7">>,
      <<" ", "\t", "1", "6", "\f">>, <<" ", "+", "\t", "-", "5">>, <<" ", "1", "\t", "6">> }

NoSymbol == <<"N", "o", " ", "s", "y", "m", "b", "o", "l", " ", "m", "a", "t", "c", "h", "e", "s", " ", "0", "x", "4", "0", "0", "0", "0", "0", ".", NL>>

FunctionInputs ==
    {NameFunc(name) : name \in Names}
    \cup {AddrFunc(name \o off \o tail) :
            name \in Names, off \in GoodOffsets \cup BadOffsets \cup SpacedOffsets,
            tail \in Tails}
    \cup {AddrFunc(NoSymbol)}

LengthAlphabet == {ESC, "m", "[", "a"}

\* short strings over the alphabet, and the prefixes __str__ measures
LengthInputs ==
    SeqsUpTo(LengthAlphabet, MaxLen)
    \cup {depth(d) : d \in Depths}
    \cup {Part1(f, d, TRUE) : f \in {Frame(4194304, NameFunc(<<"f">>), NoBlock, <<>>, 0)}, d \in Depths}

(***************************************************************************)
(* Spec: one FilterProxy, built by ColourFilter.filter from the host's     *)
(* frames, and the host's calls of its next().                             *)
(***************************************************************************)
Init ==
    /\ frames \in SeqsUpTo(ProxyFrames, MaxFrames)
    /\ ix = 0
    /\ print_address \in BOOLEAN
    /\ width \in ProxyWidths
    /\ stdout = <<>>
    /\ calls = 0
    /\ raised = ""
    /\ pc = "ready"
    /\ colored_string = <<>>
    /\ start = 0
    /\ term_seq_len = 0
    /\ retval = <<>>

\* mutant: self.frames is a list, not a generator, so every call starts over
next_restart ==
    /\ calls < MaxCalls
    /\ LET r == unroll_stack(frames, 0, print_address, width)
       IN  /\ stdout' = stdout \o r.written
           /\ ix' = r.ix
           /\ raised' = IF r.exc # "" THEN r.exc ELSE "StopIteration"
    /\ calls' = calls + 1
    /\ UNCHANGED <<pc, frames, print_address, width, colored_string, start,
                   term_seq_len, retval>>

\* FilterProxy.next: unroll_stack(), then StopIteration
next ==
    /\ calls < MaxCalls
    /\ LET r == unroll_stack(frames, ix, print_address, width)
       IN  /\ stdout' = stdout \o r.written
           /\ ix' = r.ix
           /\ raised' = IF r.exc # "" THEN r.exc ELSE "StopIteration"
    /\ calls' = calls + 1
    /\ UNCHANGED <<pc, frames, print_address, width, colored_string, start,
                   term_seq_len, retval>>

Next == next

Spec == Init /\ [][Next]_vars

(***************************************************************************)
(* SpecStr: one frame rendered by FrameColorizer.__str__.                  *)
(***************************************************************************)
InitStr ==
    /\ frames \in {<<f>> : f \in StrFrames}
    /\ ix \in Depths
    /\ print_address \in BOOLEAN
    /\ width \in Widths
    /\ stdout = <<>>
    /\ calls = 0
    /\ raised = ""
    /\ pc = "ready"
    /\ colored_string = <<>>
    /\ start = 0
    /\ term_seq_len = 0
    /\ retval = <<>>

\* unicode(FrameColorizer(frame, depth=ix))
str_call ==
    /\ pc = "ready"
    /\ LET r == __str__(FrameColorizer(frames[1], ix), print_address, width)
       IN  /\ retval' = r.val
           /\ raised' = r.exc
           /\ pc' = IF r.exc # "" THEN "raised" ELSE "returned"
    /\ UNCHANGED <<frames, ix, print_address, width, stdout, calls,
                   colored_string, start, term_seq_len>>

NextStr == str_call

SpecStr == InitStr /\ [][NextStr]_vars

(***************************************************************************)
(* SpecFunction: FrameColorizer.function on one frame.                     *)
(***************************************************************************)
InitFunction ==
    /\ frames \in {<<Frame(4194304, func, NoBlock, <<>>, 0)>> : func \in FunctionInputs}
    /\ ix = 0
    /\ print_address = FALSE
    /\ width = None
    /\ stdout = <<>>
    /\ calls = 0
    /\ raised = ""
    /\ pc = "ready"
    /\ colored_string = <<>>
    /\ start = 0
    /\ term_seq_len = 0
    /\ retval = <<>>

function_call ==
    /\ pc = "ready"
    /\ retval' = function(frames[1])
    /\ pc' = "returned"
    /\ UNCHANGED <<frames, ix, print_address, width, stdout, calls, raised,
                   colored_string, start, term_seq_len>>

NextFunction == function_call

SpecFunction == InitFunction /\ [][NextFunction]_vars

(***************************************************************************)
(* SpecLength: FrameColorizer.length, one pass of its loop at a time.  The *)
(* interpreter keeps running the loop, hence the weak fairness.            *)
(***************************************************************************)
InitLength ==
    /\ colored_string \in LengthInputs
    /\ start = 0
    /\ term_seq_len = 0
    /\ pc = "loop"
    /\ retval = 0
    /\ raised = ""
    /\ frames = <<>>
    /\ ix = 0
    /\ print_address = FALSE
    /\ width = None
    /\ stdout = <<>>
    /\ calls = 0

length_pass ==
    /\ pc = "loop"
    /\ LET st == lengthIter(colored_string,
                            [pc |-> pc, start |-> start,
                             term_seq_len |-> term_seq_len, retval |-> retval])
       IN  /\ pc' = st.pc
           /\ start' = st.start
           /\ term_seq_len' = st.term_seq_len
           /\ retval' = st.retval
           /\ raised' = IF st.pc = "raised" THEN "NameError" ELSE ""
    /\ UNCHANGED <<colored_string, frames, ix, print_address, width, stdout, calls>>

NextLength == length_pass

SpecLength == InitLength /\ [][NextLength]_vars /\ WF_vars(NextLength)

(***************************************************************************)
(* What the properties are stated with.                                    *)
(***************************************************************************)
RECURSIVE VisibleFrom(_, _)
\* the characters of s from element i on that lie outside control sequences:
\* those before the next ESC, and those after the "m" that ends its sequence
\* (none when no "m" ends it: the sequence then runs to the end of s)
VisibleFrom(s, i) ==
    LET escs == {e \in i..Len(s) : s[e] = ESC}
    IN  IF escs = {} THEN Len(s) - i + 1
        ELSE LET e  == CHOOSE x \in escs : \A y \in escs : x <= y
                 ms == {j \in (e + 1)..Len(s) : s[j] = "m"}
             IN  IF ms = {} THEN e - i
                 ELSE (e - i) + VisibleFrom(s, (CHOOSE x \in ms : \A y \in ms : x <= y) + 1)

VisibleLength(s) == VisibleFrom(s, 1)

\* every control sequence of s is terminated by "m"
AllTerminated(s) ==
    \A i \in 1..Len(s) : s[i] = ESC => \E j \in (i + 1)..Len(s) : s[j] = "m"

CountOf(c, s) == Cardinality({i \in 1..Len(s) : s[i] = c})

\* s up to its first line break
FirstLine(s) ==
    LET brk == {i \in 1..Len(s) : s[i] = NL}
    IN  IF brk = {} THEN s
        ELSE SubSeq(s, 1, (CHOOSE i \in brk : \A j \in brk : i <= j) - 1)

RECURSIVE HexDigitsOf(_)
HexDigitsOf(n) ==
    IF n < 16 THEN <<HexDigits[n + 1]>>
    ELSE HexDigitsOf(n \div 16) \o <<HexDigits[(n % 16) + 1]>>

HexOf(n) == <<"0", "x">> \o HexDigitsOf(n)

\* the frame SpecStr and SpecFunction work on
TheFrame == frames[1]

\* <depth><pad><address?>
Prefix ==
    IF print_address
    THEN depth(ix) \o <<" ", " ">> \o address(TheFrame) \o <<" ", "i", "n", " ">>
    ELSE depth(ix) \o <<" ">>

\* <function> (<args>)
FunctionAndArgs ==
    function(TheFrame) \o <<" ">> \o BrightWhite \o <<"(">>
        \o frame_args(TheFrame).val \o <<")">> \o Reset

\* <file><line>
FileAndLine == filename(TheFrame) \o line(TheFrame)

\* the one-line rendering
Unwrapped == Prefix \o FunctionAndArgs \o <<" ", "a", "t", " ">> \o FileAndLine

\* the raw assembled length exceeds a set display width
TooWide == width.set /\ Len(Unwrapped) > width.n

\* the indentation of the second line
K == VisibleLength(Prefix) - 1 - (IF print_address THEN 3 ELSE 0)

\* the rendering of the i-th frame handed to FilterProxy, tagged with depth i - 1
Rendering(i) == __str__([frame |-> frames[i], _depth |-> i - 1], print_address, width)

RenderFails(i) == Rendering(i).exc # ""

RECURSIVE BlockOf(_)
\* the renderings of the first n frames, joined by newline
BlockOf(n) ==
    IF n = 0 THEN <<>>
    ELSE IF n = 1 THEN Rendering(1).val
    ELSE BlockOf(n - 1) \o <<NL>> \o Rendering(n).val

Exhausted == calls >= 1 /\ raised = "StopIteration"

(***************************************************************************)
(* Properties of FilterProxy (Spec)                                        *)
(***************************************************************************)
\* C1: when every frame renders, the first call of next() writes exactly one
\* block, the renderings of the frames in the order supplied, the i-th
\* (from 0) with depth i, joined by newline, and ends with StopIteration.
C1_FirstCallPrintsBlock ==
    (calls = 1 /\ \A i \in 1..Len(frames) : ~RenderFails(i))
        => /\ raised = "StopIteration"
           /\ stdout = BlockOf(Len(frames)) \o <<NL>>
           /\ ix = Len(frames)

C1_Witness ==
    /\ calls = 1
    /\ Len(frames) = 3
    /\ raised = "StopIteration"
    /\ frames[1] # frames[2]
    /\ stdout = BlockOf(3) \o <<NL>>

\* C2 as stated: once a call of next() has run through the sequence, a later
\* call writes nothing to standard output, not even an empty line.
C2_LaterCallsWriteNothing ==
    [][Exhausted => (stdout' = stdout /\ raised' = "StopIteration")]_vars

\* C2 as amended: once a call of next() has run through the sequence, every
\* later call writes exactly one empty line, no frame text, and ends with
\* StopIteration.
C2_LaterCallsWriteEmptyLine ==
    [][Exhausted => (stdout' = stdout \o <<NL>> /\ raised' = "StopIteration")]_vars

C2_Witness ==
    /\ calls = 2
    /\ Len(frames) = 3
    /\ raised = "StopIteration"
    /\ stdout = BlockOf(3) \o <<NL, NL>>

\* C10: when the rendering of a frame still to come fails, the call of next()
\* ends with that failure and writes nothing, not even the frames rendered
\* before the failing one.
C10_FailureWritesNothing ==
    [][(calls' = calls + 1 /\ \E i \in (ix + 1)..Len(frames) : RenderFails(i))
         => (stdout' = stdout /\ raised' = "gdb.error")]_vars

C10_Witness ==
    /\ calls = 1
    /\ Len(frames) >= 2
    /\ ~RenderFails(1)
    /\ RenderFails(2)
    /\ raised = "gdb.error"
    /\ ix = 2
    /\ stdout = <<>>

(***************************************************************************)
(* Properties of FrameColorizer.__str__ (SpecStr)                          *)
(***************************************************************************)
\* C3 as stated: a rendering whose raw length exceeds the display width has
\* exactly one line break and a first line visibly shorter than the width.
C3_FirstLineFitsWidth ==
    (pc = "returned" /\ TooWide)
        => /\ CountOf(NL, retval) = 1
           /\ VisibleLength(FirstLine(retval)) < width.n

\* C3 as amended: a rendering whose raw length exceeds the display width has
\* exactly one line break more than its segments contain, and the text
\* before that break is the whole prefix, function and argument segment,
\* however long.
C3_OneBreakAfterFirstSegment ==
    (pc = "returned" /\ TooWide)
        => /\ CountOf(NL, retval) = CountOf(NL, Unwrapped) + 1
           /\ StartsWithAt(retval, Prefix \o FunctionAndArgs \o <<NL>>, 0)
           /\ CountOf(NL, Unwrapped) = 0 => FirstLine(retval) = Prefix \o FunctionAndArgs

C3_Witness ==
    /\ pc = "returned"
    /\ TooWide
    /\ CountOf(NL, retval) = 1
    /\ VisibleLength(FirstLine(retval)) > width.n
    /\ width.n = 40

\* C8: with no display width, or a raw length within it, the rendering is
\* the one-line assembly <prefix><function> (<args>) at <file><line>.
C8_UnwrappedWhenItFits ==
    (pc = "returned" /\ ~TooWide) => retval = Unwrapped

C8_Witness ==
    /\ pc = "returned"
    /\ width.set
    /\ Len(Unwrapped) = width.n
    /\ retval = Unwrapped

\* C9: a wrapped rendering is the prefix, the function and argument segment,
\* a line break, K spaces, " at " and the file/line segment, K being the
\* visible length of the prefix less 1, less 3 more with the address shown;
\* K is never negative.
C9_WrappedLayout ==
    /\ K >= 0
    /\ (pc = "returned" /\ TooWide)
         => retval = Prefix \o FunctionAndArgs \o <<NL>> \o Repeat(" ", K)
                        \o <<" ", "a", "t", " ">> \o FileAndLine

C9_Witness ==
    /\ pc = "returned"
    /\ TooWide
    /\ print_address
    /\ ix = 1000
    /\ K = 25

(***************************************************************************)
(* Properties of FrameColorizer.function (SpecFunction)                    *)
(***************************************************************************)
\* the tails that hold "in section"
SectionTails == {tail \in Tails : Find(tail, <<"i", "n", " ", "s", "e", "c", "t", "i", "o", "n">>, 0) # -1}

MainPlus16 == Main \o <<" ", "+", " ", "1", "6">> \o InSection

\* C4 as stated: "<name> + <n> in section ..." resolves to "<name> <hex of n>".
C4_NameSpaceHex ==
    (pc = "returned" /\ TheFrame.func.is_int)
        => \A name \in Names, n \in (0..MaxOffset) \cup {272}, tail \in SectionTails :
              TheFrame.func.symbol = name \o <<" ", "+", " ">> \o FormatD(n) \o tail
                 => retval = name \o <<" ">> \o HexOf(n)

\* C4 as amended: "<name> + <n> in section ..." resolves to
\* "<name> + <hex of n>" between the function colour marker and the reset.
C4_NamePlusHexColoured ==
    (pc = "returned" /\ TheFrame.func.is_int)
        => \A name \in Names, n \in (0..MaxOffset) \cup {272}, tail \in SectionTails :
              TheFrame.func.symbol = name \o <<" ", "+", " ">> \o FormatD(n) \o tail
                 => retval = BrightBlue \o name \o <<" ", "+", " ">> \o HexOf(n) \o Reset

C4_Witness ==
    /\ pc = "returned"
    /\ TheFrame.func.is_int
    /\ TheFrame.func.symbol = MainPlus16
    /\ retval = BrightBlue \o <<"m", "a", "i", "n", " ", "+", " ", "0", "x", "1", "0">> \o Reset

\* C7: a nearest-symbol text whose name has no final component that is an
\* integer resolves to the name as it stands, with no offset appended.
C7_NameUnchanged ==
    (pc = "returned" /\ TheFrame.func.is_int)
        => \A name \in Names, off \in BadOffsets, tail \in Tails :
              TheFrame.func.symbol = name \o off \o tail => retval = name \o off

C7_Witness ==
    /\ pc = "returned"
    /\ TheFrame.func.is_int
    /\ TheFrame.func.symbol = Main \o InSection
    /\ retval = Main

(***************************************************************************)
(* Properties of FrameColorizer.length (SpecLength)                        *)
(***************************************************************************)
\* C5: on a string whose control sequences are all terminated by "m",
\* length() terminates and returns the number of characters outside the
\* control sequences.
C5_LengthOfTerminated ==
    /\ [](AllTerminated(colored_string) /\ pc = "returned"
            => retval = VisibleLength(colored_string))
    /\ [](AllTerminated(colored_string) => <>(pc = "returned"))

C5_Witness ==
    /\ pc = "returned"
    /\ colored_string = BrightWhite \o <<"#", "0", " ", " ">> \o Reset
    /\ retval = 4

\* C6: on a string with a control sequence that no "m" terminates, length()
\* does not fail and returns the number of characters outside the control
\* sequences, the unterminated one running to the end of the string.
C6_UnterminatedIsCounted ==
    ~AllTerminated(colored_string)
        => /\ pc # "raised"
           /\ pc = "returned" => retval = VisibleLength(colored_string)

=============================================================================
